---- MODULE Spec2Model ----
(***************************************************************************)
(* arozos mdns package: MDNSHost construction (NewMDNS), teardown (Close)  *)
(* and the bounded-time concurrent Scan.                                   *)
(*                                                                         *)
(* Go strings are sequences of one-character strings; "" is <<>>.          *)
(* A Go pointer is a sequence of length at most one: <<>> is nil and       *)
(* <<v>> points at v.                                                      *)
(***************************************************************************)
EXTENDS Integers, Sequences, FiniteSets, TLC

\* ------------------------------------------------------------------------
\* Bounds
\* ------------------------------------------------------------------------
MaxClose == 2
MaxRecv == 2
MaxTimeout == 2
NumTasks == 2
MaxMonth == 2

\* ------------------------------------------------------------------------
\* Go standard library string functions, as the code uses them
\* ------------------------------------------------------------------------
Nil == <<>>

FirstIndex(s, c) == CHOOSE i \in 1..Len(s) : s[i] = c /\ \A j \in 1..(i - 1) : s[j] # c

\* strings.Split(s, sep) for a one-character separator: every occurrence splits
RECURSIVE Split(_, _)
Split(s, c) ==
    IF \A i \in 1..Len(s) : s[i] # c
    THEN <<s>>
    ELSE LET i == FirstIndex(s, c)
         IN  <<SubSeq(s, 1, i - 1)>> \o Split(SubSeq(s, i + 1, Len(s)), c)

\* strings.Join(list, sep)
RECURSIVE Join(_, _)
Join(list, c) ==
    IF Len(list) = 0 THEN <<>>
    ELSE IF Len(list) = 1 THEN list[1]
    ELSE list[1] \o <<c>> \o Join(Tail(list), c)

\* strings.ReplaceAll(s, old, new) for one-character old and new
ReplaceAll(s, old, new) == [i \in 1..Len(s) |-> IF s[i] = old THEN new ELSE s[i]]

\* simple case folding of one character (ASCII letters of the model's alphabet)
Fold(ch) ==
    CASE ch = "A" -> "a"
      [] ch = "B" -> "b"
      [] ch = "C" -> "c"
      [] ch = "D" -> "d"
      [] ch = "E" -> "e"
      [] ch = "F" -> "f"
      [] OTHER -> ch

\* strings.EqualFold(a, b)
EqualFold(a, b) == Len(a) = Len(b) /\ \A i \in 1..Len(a) : Fold(a[i]) = Fold(b[i])

IsSpace(ch) == ch \in {" ", "\t", "\n", "\r"}

\* strings.TrimSpace(s)
RECURSIVE TrimSpace(_)
TrimSpace(s) ==
    IF Len(s) = 0 THEN s
    ELSE IF IsSpace(s[1]) THEN TrimSpace(Tail(s))
    ELSE IF IsSpace(s[Len(s)]) THEN TrimSpace(SubSeq(s, 1, Len(s) - 1))
    ELSE s

HexDigits == <<"0", "1", "2", "3", "4", "5", "6", "7", "8", "9", "a", "b", "c", "d", "e", "f">>

HexByte(b) == <<HexDigits[(b \div 16) + 1], HexDigits[(b % 16) + 1]>>

\* net.HardwareAddr.String(): lower-case hex bytes joined by ':', "" when empty
RECURSIVE HardwareAddrString(_)
HardwareAddrString(hw) ==
    IF Len(hw) = 0 THEN <<>>
    ELSE IF Len(hw) = 1 THEN HexByte(hw[1])
    ELSE HexByte(hw[1]) \o <<":">> \o HardwareAddrString(Tail(hw))

\* ------------------------------------------------------------------------
\* Property keys of the advertisement
\* ------------------------------------------------------------------------
K_version_build == <<"v", "e", "r", "s", "i", "o", "n", "_", "b", "u", "i", "l", "d">>
K_version_minor == <<"v", "e", "r", "s", "i", "o", "n", "_", "m", "i", "n", "o", "r">>
K_vendor == <<"v", "e", "n", "d", "o", "r">>
K_model == <<"m", "o", "d", "e", "l">>
K_uuid == <<"u", "u", "i", "d">>
K_domain == <<"d", "o", "m", "a", "i", "n">>
K_mac_addr == <<"m", "a", "c", "_", "a", "d", "d", "r">>

\* ------------------------------------------------------------------------
\* The host environment NewMDNS runs in
\* ------------------------------------------------------------------------
\* one bound address of an interface: IP text, CIDR suffix of IPNet.String(),
\* and whether ip.To4() is non-nil
AddrV6 == [IP |-> "fe80::1", Suffix |-> "/64", V4 |-> FALSE]
AddrV4a == [IP |-> "10.0.0.5", Suffix |-> "/8", V4 |-> TRUE]
AddrV4b == [IP |-> "192.168.1.5", Suffix |-> "/24", V4 |-> TRUE]
AddrLo == [IP |-> "127.0.0.1", Suffix |-> "/8", V4 |-> TRUE]

IfLo == [Name |-> "lo", HardwareAddr |-> <<>>, Addrs |-> <<AddrLo>>, AddrsErr |-> FALSE]
IfEth0 == [Name |-> "eth0", HardwareAddr |-> <<171, 1>>, Addrs |-> <<AddrV6, AddrV4a, AddrV4b>>, AddrsErr |-> FALSE]
IfEth1 == [Name |-> "eth1", HardwareAddr |-> <<1, 171>>, Addrs |-> <<AddrV4b, AddrV6>>, AddrsErr |-> FALSE]
IfEth2 == [Name |-> "eth2", HardwareAddr |-> <<205, 239>>, Addrs |-> <<>>, AddrsErr |-> TRUE]

\* results of net.Interfaces(): the list, or an error with a nil list
InterfacesResults ==
    { [err |-> FALSE, ifaces |-> <<IfLo, IfEth0, IfEth1>>],
      [err |-> FALSE, ifaces |-> <<IfEth1, IfEth2, IfEth0>>],
      [err |-> TRUE, ifaces |-> <<>>] }

Mac_ab01 == <<"a", "b", ":", "0", "1">>
Mac_01ab == <<"0", "1", ":", "a", "b">>

\* results of getMacAddr(): the hardware addresses of the host, or an error
MacAddrResults ==
    { [err |-> TRUE, macs |-> <<>>],
      [err |-> FALSE, macs |-> <<>>],
      [err |-> FALSE, macs |-> <<Mac_ab01>>],
      [err |-> FALSE, macs |-> <<Mac_ab01, Mac_01ab>>] }

\* the MacOverride arguments tried
MacOverrides ==
    { <<>>,
      <<"a", "b", ":", "0", "1">>,
      <<"A", "B", "-", "0", "1">>,
      <<" ", "a", "B", ":", "0", "1", " ">>,
      <<"0", "1", "-", "A", "B">>,
      <<"c", "d", ":", "e", "f">>,
      <<"a", "b", ":", "0", "2">>,
      <<" ">> }

ConfigOf(dom, ven) ==
    [HostName |-> "self", Port |-> 8080, IPv4 |-> <<>>, Domain |-> dom, Model |-> <<"m">>,
     UUID |-> <<"u">>, Vendor |-> ven, BuildVersion |-> <<"1">>, MinorVersion |-> <<"2">>,
     MacAddr |-> <<>>, Online |-> FALSE]

\* the NetworkHost configurations handed to NewMDNS
Configs == { ConfigOf(<<"a">>, <<"v">>), ConfigOf(<<>>, <<"v", "=", "w">>) }

\* ------------------------------------------------------------------------
\* State
\* ------------------------------------------------------------------------
VARIABLES
    called,        \* NewMDNS has returned to its caller
    args,          \* the arguments and environment of that NewMDNS call
    m,             \* the *MDNSHost NewMDNS returned (Nil: nil pointer)
    err,           \* the error NewMDNS returned: "" is nil
    server,        \* the zeroconf server behind the handle: "none", "registered", "shutdown"
    registerArgs,  \* the arguments zeroconf.Register was called with (Nil: never called)
    ifaceIp,       \* the IP address reported in the force-MAC diagnostic
    logs,          \* the diagnostics NewMDNS printed
    closeCalls,    \* number of Close() calls made on m
    panicked       \* a nil dereference has crashed the process

agentVars == <<called, args, m, err, server, registerArgs, ifaceIp, logs, closeCalls, panicked>>

\* ------------------------------------------------------------------------
\* Scan: state
\* ------------------------------------------------------------------------
VARIABLES
    scanPc,          \* the caller of Scan: "idle", "waiting" (<-ctx.Done()), "returned", "exited"
    domainFilter,    \* Scan's domainFilter argument
    timeout,         \* Scan's timeout argument, in seconds
    elapsed,         \* seconds elapsed of the context's timeout
    zcoption,        \* the interface selection handed to zeroconf.NewResolver (Nil: none)
    scanFailure,     \* "" or the primitive that failed: "resolver", "browse"
    processAlive,    \* FALSE once log.Fatalln has ended the process
    chanClosed,      \* the browse loop has closed the entries channel
    collPc,          \* the collector goroutine: "none", "recv", "process", "appending", "done"
    received,        \* the entries the collector has taken from the channel, in order,
                     \* each with whether the deadline had not yet elapsed
    pending,         \* the record the collector is appending (Nil: none)
    discoveredHost,  \* the shared result slice
    result           \* what Scan returned (Nil: not returned)

scanVars == <<scanPc, domainFilter, timeout, elapsed, zcoption, scanFailure, processAlive,
              chanClosed, collPc, received, pending, discoveredHost, result>>

\* ------------------------------------------------------------------------
\* Logger: state
\* ------------------------------------------------------------------------
VARIABLES
    LogToFile,       \* Logger.LogToFile
    CurrentLogFile,  \* Logger.CurrentLogFile
    file,            \* Logger.file: the handle, an index into files
    files,           \* every os.File opened so far: its path and whether it is still open
    now,             \* time.Now(): months passed since the Logger was created
    taskPc,          \* each background Log task: "idle", "Log", "validate", "close", "open",
                     \* "assignPath", "assignFile", "write", "done"
    taskExpected,    \* expectedCurrentLogFilepath of each task
    taskF,           \* f, the handle each task opened
    wroteToClosed    \* WriteString has been called on a closed handle

loggerVars == <<LogToFile, CurrentLogFile, file, files, now, taskPc, taskExpected, taskF,
                wroteToClosed>>

\* ------------------------------------------------------------------------
\* NewMDNS
\* ------------------------------------------------------------------------
\* the TXT lines passed to zeroconf.Register
RegisterText(config, macAddress) ==
    LET macAddressBoardcast == Join(macAddress, ",")
    IN  << K_version_build \o <<"=">> \o config.BuildVersion,
           K_version_minor \o <<"=">> \o config.MinorVersion,
           K_vendor \o <<"=">> \o config.Vendor,
           K_model \o <<"=">> \o config.Model,
           K_uuid \o <<"=">> \o config.UUID,
           K_domain \o <<"=">> \o config.Domain,
           K_mac_addr \o <<"=">> \o macAddressBoardcast >>

\* the comparison made with == instead of strings.EqualFold
IfaceMatchesCaseSensitive(iface, MacOverride) ==
    LET thisIfaceMac == ReplaceAll(HardwareAddrString(iface.HardwareAddr), ":", "-")
        override == ReplaceAll(MacOverride, ":", "-")
    IN  thisIfaceMac = TrimSpace(override)

\* the comparison of one interface against MacOverride
IfaceMatches(iface, MacOverride) ==
    LET thisIfaceMac == ReplaceAll(HardwareAddrString(iface.HardwareAddr), ":", "-")
        override == ReplaceAll(MacOverride, ":", "-")
    IN  EqualFold(thisIfaceMac, TrimSpace(override))

\* index of the interface the loop breaks on, 0 when it runs to the end
MatchingIface(ifaces, MacOverride) ==
    IF \E i \in 1..Len(ifaces) : IfaceMatches(ifaces[i], MacOverride)
    THEN CHOOSE i \in 1..Len(ifaces) :
            /\ IfaceMatches(ifaces[i], MacOverride)
            /\ \A j \in 1..(i - 1) : ~IfaceMatches(ifaces[j], MacOverride)
    ELSE 0

\* the loop over addrs leaving at its first address with a non-nil To4()
RECURSIVE FirstIPv4(_, _)
FirstIPv4(addrs, ifaceIpSoFar) ==
    IF Len(addrs) = 0 THEN ifaceIpSoFar
    ELSE IF addrs[1].V4 THEN addrs[1].IP
    ELSE FirstIPv4(Tail(addrs), ifaceIpSoFar)

\* the loop over addrs: every address with a non-nil To4() overwrites ifaceIp
RECURSIVE LastIPv4(_, _)
LastIPv4(addrs, ifaceIpSoFar) ==
    IF Len(addrs) = 0 THEN ifaceIpSoFar
    ELSE LastIPv4(Tail(addrs), IF addrs[1].V4 THEN addrs[1].IP ELSE ifaceIpSoFar)

\* ifaceIp for the matched interface
ResolveIfaceIp(iface) ==
    LET addrs == IF iface.AddrsErr THEN <<>> ELSE iface.Addrs
        first == IF ~iface.AddrsErr /\ Len(addrs) > 0
                 THEN addrs[1].IP \o addrs[1].Suffix
                 ELSE ""
    IN  LastIPv4(addrs, first)

EmptyMDNSHost == [MDNS |-> Nil, Host |-> Nil, IfaceOverride |-> Nil]

\* NewMDNS logging the getMacAddr error and carrying on (the else branch of
\* the second err test) instead of returning it
NewMDNSResultIgnoringMacErr(config, MacOverride, macRes, registerFails, ifRes) ==
    LET text == RegisterText(config, macRes.macs)
        regCall == <<[instance |-> config.HostName, port |-> config.Port, text |-> text, ifaces |-> Nil]>>
        k == MatchingIface(ifRes.ifaces, MacOverride)
    IN  IF registerFails
        THEN [m |-> <<EmptyMDNSHost>>, err |-> "register", server |-> "none", registerArgs |-> regCall,
              ifaceIp |-> "", logs |-> <<"error_registering">>]
        ELSE [m |-> <<[MDNS |-> <<"server">>, Host |-> <<config>>,
                       IfaceOverride |-> IF MacOverride = <<>> \/ k = 0 THEN Nil ELSE <<ifRes.ifaces[k]>>]>>,
              err |-> "", server |-> "registered", registerArgs |-> regCall,
              ifaceIp |-> "", logs |-> <<>>]

\* everything one call of NewMDNS produces
NewMDNSResult(config, MacOverride, macRes, registerFails, ifRes) ==
    LET text == RegisterText(config, macRes.macs)
        regCall == <<[instance |-> config.HostName, port |-> config.Port, text |-> text, ifaces |-> Nil]>>
        ifaces == ifRes.ifaces
        k == MatchingIface(ifaces, MacOverride)
        ifaceLog == IF ifRes.err THEN <<"unable_to_override_iface">> ELSE <<>>
    IN  IF macRes.err
        THEN [m |-> Nil, err |-> "getMacAddr", server |-> "none", registerArgs |-> Nil,
              ifaceIp |-> "", logs |-> <<>>]
        ELSE IF registerFails
        THEN [m |-> <<EmptyMDNSHost>>, err |-> "register", server |-> "none", registerArgs |-> regCall,
              ifaceIp |-> "", logs |-> <<"error_registering">>]
        ELSE IF MacOverride = <<>>
        THEN [m |-> <<[MDNS |-> <<"server">>, Host |-> <<config>>, IfaceOverride |-> Nil]>>,
              err |-> "", server |-> "registered", registerArgs |-> regCall,
              ifaceIp |-> "", logs |-> <<>>]
        ELSE IF k = 0
        THEN [m |-> <<[MDNS |-> <<"server">>, Host |-> <<config>>, IfaceOverride |-> Nil]>>,
              err |-> "", server |-> "registered", registerArgs |-> regCall,
              ifaceIp |-> "", logs |-> ifaceLog \o <<"iface_not_found">>]
        ELSE [m |-> <<[MDNS |-> <<"server">>, Host |-> <<config>>, IfaceOverride |-> <<ifaces[k]>>]>>,
              err |-> "", server |-> "registered", registerArgs |-> regCall,
              ifaceIp |-> ResolveIfaceIp(ifaces[k]), logs |-> ifaceLog \o <<"force_mac_mode">>]

NewMDNS ==
    /\ ~called
    /\ \E config \in Configs, MacOverride \in MacOverrides, macRes \in MacAddrResults,
          registerFails \in BOOLEAN, ifRes \in InterfacesResults :
          LET r == NewMDNSResult(config, MacOverride, macRes, registerFails, ifRes)
          IN  /\ args' = <<[config |-> config, MacOverride |-> MacOverride, ifaces |-> ifRes.ifaces,
                            ifacesErr |-> ifRes.err, macs |-> macRes.macs, macErr |-> macRes.err,
                            registerFails |-> registerFails]>>
              /\ m' = r.m
              /\ err' = r.err
              /\ server' = r.server
              /\ registerArgs' = r.registerArgs
              /\ ifaceIp' = r.ifaceIp
              /\ logs' = r.logs
    /\ called' = TRUE
    /\ UNCHANGED <<closeCalls, panicked>>
    /\ UNCHANGED <<scanVars, loggerVars>>

\* ------------------------------------------------------------------------
\* Close
\* ------------------------------------------------------------------------
\* zeroconf.Server.Shutdown on a live handle: unregisters once, later calls
\* find isShutdown set and return
Shutdown(s) == IF s = "registered" THEN "shutdown" ELSE s

\* Close dropping the handle after the shutdown
CloseDroppingHandle ==
    /\ called
    /\ ~panicked
    /\ closeCalls < MaxClose
    /\ closeCalls' = closeCalls + 1
    /\ IF m # Nil
       THEN IF m[1].MDNS = Nil
            THEN /\ panicked' = TRUE
                 /\ UNCHANGED <<server, m>>
            ELSE /\ server' = Shutdown(server)
                 /\ m' = <<[m[1] EXCEPT !.MDNS = Nil]>>
                 /\ UNCHANGED panicked
       ELSE UNCHANGED <<server, panicked, m>>
    /\ UNCHANGED <<called, args, err, registerArgs, ifaceIp, logs>>
    /\ UNCHANGED <<scanVars, loggerVars>>

Close ==
    /\ called
    /\ ~panicked
    /\ closeCalls < MaxClose
    /\ closeCalls' = closeCalls + 1
    /\ IF m # Nil
       THEN IF m[1].MDNS = Nil
            THEN /\ panicked' = TRUE           \* Shutdown locks a field of the nil *Server
                 /\ UNCHANGED server
            ELSE /\ server' = Shutdown(server)
                 /\ UNCHANGED panicked
       ELSE UNCHANGED <<server, panicked>>
    /\ UNCHANGED <<called, args, m, err, registerArgs, ifaceIp, logs>>
    /\ UNCHANGED <<scanVars, loggerVars>>

\* ------------------------------------------------------------------------
\* The advertisements on the network
\* ------------------------------------------------------------------------
KV(k, v) == k \o <<"=">> \o v

K_other == <<"x">>

\* arozos peers: the hosts that advertise what their NewMDNS registers
PeerAlpha ==
    [HostName |-> "alpha.local.", AddrIPv4 |-> <<"10.0.0.7">>,
     config |-> ConfigOf(<<"a">>, <<"v">>), macs |-> <<Mac_ab01, Mac_01ab>>]
PeerGamma ==
    [HostName |-> "gamma.local.", AddrIPv4 |-> <<"10.0.0.6">>,
     config |-> ConfigOf(<<>>, <<"v", "=", "w">>), macs |-> <<>>]

ArozPeers == {PeerAlpha, PeerGamma}

\* the zeroconf.ServiceEntry a browse yields for an arozos peer
EntryOfPeer(p) ==
    [HostName |-> p.HostName, Port |-> p.config.Port, AddrIPv4 |-> p.AddrIPv4,
     Text |-> RegisterText(p.config, p.macs)]

EntryAlpha == EntryOfPeer(PeerAlpha)
EntryGamma == EntryOfPeer(PeerGamma)
\* a peer of another domain, with an empty mac_addr
EntryBeta ==
    [HostName |-> "beta.local.", Port |-> 80, AddrIPv4 |-> <<"10.0.0.8">>,
     Text |-> <<KV(K_domain, <<"b">>), KV(K_mac_addr, <<>>), KV(K_other, <<"y">>)>>]
\* an older peer: no mac_addr, and a line that is no key=value pair
EntryOld ==
    [HostName |-> "old.local.", Port |-> 80, AddrIPv4 |-> <<>>,
     Text |-> <<KV(K_domain, <<"a">>), <<"t", "x", "t">>>>]
\* a peer with two domain lines
EntryMulti ==
    [HostName |-> "multi.local.", Port |-> 80, AddrIPv4 |-> <<"10.0.0.9">>,
     Text |-> <<KV(K_domain, <<"a">>), KV(K_domain, <<"b">>), KV(K_mac_addr, <<",">>)>>]
\* a peer whose values contain '='
EntryEq ==
    [HostName |-> "eq.local.", Port |-> 80, AddrIPv4 |-> <<"10.0.0.10">>,
     Text |-> <<KV(K_domain, <<"a", "=", "b">>), KV(K_mac_addr, <<"=">>), KV(K_vendor, <<"v">>)>>]
\* a peer with no properties at all
EntryBare ==
    [HostName |-> "bare.local.", Port |-> 80, AddrIPv4 |-> <<>>, Text |-> <<>>]

Entries == {EntryAlpha, EntryGamma, EntryBeta, EntryOld, EntryMulti, EntryEq, EntryBare}

DomainFilters == { <<>>, <<"a">>, <<"b">>, <<"a", "=", "b">> }

\* ------------------------------------------------------------------------
\* Scan: the collector's decoding
\* ------------------------------------------------------------------------
EmptyMap == [x \in {} |-> <<>>]

\* properties[k] = v
MapPut(p, k, v) == [x \in (DOMAIN p) \cup {k} |-> IF x = k THEN v ELSE p[x]]

\* properties[k], the zero value "" when k is absent
MapGet(p, k) == IF k \in DOMAIN p THEN p[k] ELSE <<>>

\* the loop over TEXT of the unfiltered path
RECURSIVE UnfilteredLoop(_, _)
UnfilteredLoop(TEXT, properties) ==
    IF Len(TEXT) = 0 THEN properties
    ELSE LET kv == Split(TEXT[1], "=")
         IN  UnfilteredLoop(Tail(TEXT),
                 IF Len(kv) = 2 THEN MapPut(properties, kv[1], kv[2]) ELSE properties)

UnfilteredProperties(TEXT) == UnfilteredLoop(TEXT, EmptyMap)

UnfilteredMacAddrs(properties) ==
    LET ok == K_mac_addr \in DOMAIN properties
        val == MapGet(properties, K_mac_addr)
    IN  IF ~ok \/ val = <<>>
        THEN <<>>
        ELSE Split(MapGet(properties, K_mac_addr), ",")

\* the NetworkHost the unfiltered path appends for entry
UnfilteredHost(entry) ==
    LET properties == UnfilteredProperties(entry.Text)
    IN  [HostName |-> entry.HostName, Port |-> entry.Port, IPv4 |-> entry.AddrIPv4,
         Domain |-> MapGet(properties, K_domain),
         Model |-> MapGet(properties, K_model),
         UUID |-> MapGet(properties, K_uuid),
         Vendor |-> MapGet(properties, K_vendor),
         BuildVersion |-> MapGet(properties, K_version_build),
         MinorVersion |-> MapGet(properties, K_version_minor),
         MacAddr |-> UnfilteredMacAddrs(properties),
         Online |-> TRUE]

\* strings.SplitN(s, sep, 2): split at the first separator only
SplitFirst(s, c) ==
    IF \A i \in 1..Len(s) : s[i] # c
    THEN <<s>>
    ELSE LET i == FirstIndex(s, c)
         IN  <<SubSeq(s, 1, i - 1), SubSeq(s, i + 1, Len(s))>>

\* the loop of the filtered path splitting each line at its first '='
RECURSIVE FilteredLoopSplitFirst(_, _)
FilteredLoopSplitFirst(TEXT, properties) ==
    IF Len(TEXT) = 0 THEN properties
    ELSE LET kv == SplitFirst(TEXT[1], "=")
         IN  FilteredLoopSplitFirst(Tail(TEXT),
                 IF Len(kv) = 2 THEN MapPut(properties, kv[1], kv[2]) ELSE properties)

\* the loop over TEXT of the filtered path
RECURSIVE FilteredLoop(_, _)
FilteredLoop(TEXT, properties) ==
    IF Len(TEXT) = 0 THEN properties
    ELSE LET kv == Split(TEXT[1], "=")
         IN  FilteredLoop(Tail(TEXT),
                 IF Len(kv) = 2 THEN MapPut(properties, kv[1], kv[2]) ELSE properties)

FilteredProperties(TEXT) == FilteredLoop(TEXT, EmptyMap)

\* the filtered path splitting an empty mac_addr value as well
FilteredMacAddrsNoEmptyCheck(properties) ==
    LET ok == K_mac_addr \in DOMAIN properties
    IN  IF ~ok
        THEN <<>>
        ELSE Split(MapGet(properties, K_mac_addr), ",")

FilteredMacAddrs(properties) ==
    LET ok == K_mac_addr \in DOMAIN properties
        val == MapGet(properties, K_mac_addr)
    IN  IF ~ok \/ val = <<>>
        THEN <<>>
        ELSE Split(MapGet(properties, K_mac_addr), ",")

\* the NetworkHost the filtered path appends for entry
FilteredHost(entry) ==
    LET properties == FilteredProperties(entry.Text)
    IN  [HostName |-> entry.HostName, Port |-> entry.Port, IPv4 |-> entry.AddrIPv4,
         Domain |-> MapGet(properties, K_domain),
         Model |-> MapGet(properties, K_model),
         UUID |-> MapGet(properties, K_uuid),
         Vendor |-> MapGet(properties, K_vendor),
         BuildVersion |-> MapGet(properties, K_version_build),
         MinorVersion |-> MapGet(properties, K_version_minor),
         MacAddr |-> FilteredMacAddrs(properties),
         Online |-> TRUE]

\* stringInSlice(a, list): list holds a string equal to a
stringInSlice(a, list) == \E i \in 1..Len(list) : list[i] = a

\* the collector comparing the decoded domain instead of the raw lines
CollectorRecordDecodedDomain(filter, entry) ==
    IF filter = <<>>
    THEN <<UnfilteredHost(entry)>>
    ELSE IF FilteredHost(entry).Domain = filter
         THEN <<FilteredHost(entry)>>
         ELSE Nil

\* the record one iteration of the collector's loop appends (Nil: none)
CollectorRecord(filter, entry) ==
    IF filter = <<>>
    THEN <<UnfilteredHost(entry)>>
    ELSE IF stringInSlice(K_domain \o <<"=">> \o filter, entry.Text)
         THEN <<FilteredHost(entry)>>
         ELSE Nil

\* what a reader finds at the slot of an append whose element or header it
\* did not see written
TornHost ==
    [HostName |-> "", Port |-> 0, IPv4 |-> <<>>, Domain |-> <<>>, Model |-> <<>>, UUID |-> <<>>,
     Vendor |-> <<>>, BuildVersion |-> <<>>, MinorVersion |-> <<>>, MacAddr |-> <<>>,
     Online |-> FALSE]

\* ------------------------------------------------------------------------
\* Scan: the caller, the collector goroutine and the browse loop
\* ------------------------------------------------------------------------
\* a context that is done only after its deadline has been passed
ctxDoneAfterDeadline == elapsed > timeout

ctxDone == elapsed >= timeout

\* Scan up to <-ctx.Done(): NewResolver, go collector, Browse
ScanStart ==
    /\ scanPc = "idle"
    /\ called /\ m # Nil /\ ~panicked
    /\ \E t \in 1..MaxTimeout, filter \in DomainFilters, failure \in {"", "resolver", "browse"} :
          /\ timeout' = t
          /\ domainFilter' = filter
          /\ scanFailure' = failure
          /\ zcoption' = m[1].IfaceOverride
          /\ IF failure # ""
             THEN /\ processAlive' = FALSE        \* log.Fatalln: os.Exit(1)
                  /\ scanPc' = "exited"
                  /\ UNCHANGED collPc
             ELSE /\ scanPc' = "waiting"
                  /\ collPc' = "recv"
                  /\ UNCHANGED processAlive
    /\ UNCHANGED <<elapsed, chanClosed, received, pending, discoveredHost, result>>
    /\ UNCHANGED <<agentVars, loggerVars>>

\* one second of the context's timeout passes
Tick ==
    /\ processAlive
    /\ scanPc = "waiting"
    /\ elapsed < timeout
    /\ elapsed' = elapsed + 1
    /\ UNCHANGED <<scanPc, domainFilter, timeout, zcoption, scanFailure, processAlive, chanClosed,
                   collPc, received, pending, discoveredHost, result>>
    /\ UNCHANGED <<agentVars, loggerVars>>

\* the browse loop sends an entry on the unbuffered channel and the
\* collector's range takes it
BrowseDeliver ==
    /\ processAlive
    /\ scanPc \in {"waiting", "returned"}
    /\ ~chanClosed
    /\ collPc = "recv"
    /\ Len(received) < MaxRecv
    /\ \E e \in Entries :
          received' = Append(received, [entry |-> e, beforeDeadline |-> ~ctxDone])
    /\ collPc' = "process"
    /\ UNCHANGED <<scanPc, domainFilter, timeout, elapsed, zcoption, scanFailure, processAlive,
                   chanClosed, pending, discoveredHost, result>>
    /\ UNCHANGED <<agentVars, loggerVars>>

\* the browse loop sees the context done and closes the channel
BrowseClose ==
    /\ processAlive
    /\ scanPc \in {"waiting", "returned"}
    /\ ctxDone
    /\ ~chanClosed
    /\ chanClosed' = TRUE
    /\ UNCHANGED <<scanPc, domainFilter, timeout, elapsed, zcoption, scanFailure, processAlive,
                   collPc, received, pending, discoveredHost, result>>
    /\ UNCHANGED <<agentVars, loggerVars>>

\* the collector filters and decodes the entry it took
CollectorDecode ==
    /\ processAlive
    /\ collPc = "process"
    /\ LET rec == CollectorRecord(domainFilter, received[Len(received)].entry)
       IN  /\ pending' = rec
           /\ collPc' = IF rec = Nil THEN "recv" ELSE "appending"
    /\ UNCHANGED <<scanPc, domainFilter, timeout, elapsed, zcoption, scanFailure, processAlive,
                   chanClosed, received, discoveredHost, result>>
    /\ UNCHANGED <<agentVars, loggerVars>>

\* discoveredHost = append(discoveredHost, ...) completes
CollectorAppend ==
    /\ processAlive
    /\ collPc = "appending"
    /\ discoveredHost' = Append(discoveredHost, pending[1])
    /\ pending' = Nil
    /\ collPc' = "recv"
    /\ UNCHANGED <<scanPc, domainFilter, timeout, elapsed, zcoption, scanFailure, processAlive,
                   chanClosed, received, result>>
    /\ UNCHANGED <<agentVars, loggerVars>>

\* the range over the closed channel ends and the goroutine returns
CollectorExit ==
    /\ processAlive
    /\ collPc = "recv"
    /\ chanClosed
    /\ collPc' = "done"
    /\ UNCHANGED <<scanPc, domainFilter, timeout, elapsed, zcoption, scanFailure, processAlive,
                   chanClosed, received, pending, discoveredHost, result>>
    /\ UNCHANGED <<agentVars, loggerVars>>

\* what the unsynchronized read of discoveredHost can yield
ReadDiscoveredHost ==
    IF collPc = "appending"
    THEN {discoveredHost, Append(discoveredHost, pending[1]), Append(discoveredHost, TornHost)}
    ELSE {discoveredHost}

\* <-ctx.Done() unblocks and Scan returns discoveredHost
ScanReturn ==
    /\ processAlive
    /\ scanPc = "waiting"
    /\ ctxDone
    /\ \E read \in ReadDiscoveredHost : result' = <<read>>
    /\ scanPc' = "returned"
    /\ UNCHANGED <<domainFilter, timeout, elapsed, zcoption, scanFailure, processAlive, chanClosed,
                   collPc, received, pending, discoveredHost>>
    /\ UNCHANGED <<agentVars, loggerVars>>

InitScanVars ==
    /\ scanPc = "idle"
    /\ domainFilter = <<>>
    /\ timeout = 1
    /\ elapsed = 0
    /\ zcoption = Nil
    /\ scanFailure = ""
    /\ processAlive = TRUE
    /\ chanClosed = FALSE
    /\ collPc = "none"
    /\ received = <<>>
    /\ pending = Nil
    /\ discoveredHost = <<>>
    /\ result = Nil

\* ------------------------------------------------------------------------
\* Logger
\* ------------------------------------------------------------------------
Tasks == 1..NumTasks

\* getLogFilepath at t months after creation (November 2026):
\* LogFolder/Prefix_<year>-<month>.log
getLogFilepath(t) == [year |-> 2026 + ((10 + t) \div 12), month |-> ((10 + t) % 12) + 1]

\* the calendar month changes
MonthChange ==
    /\ now < MaxMonth
    /\ now' = now + 1
    /\ UNCHANGED <<LogToFile, CurrentLogFile, file, files, taskPc, taskExpected, taskF, wroteToClosed>>
    /\ UNCHANGED <<agentVars, scanVars>>

\* PrintAndLog starts the goroutine that calls Log
PrintAndLog(t) ==
    /\ taskPc[t] = "idle"
    /\ taskPc' = [taskPc EXCEPT ![t] = "Log"]
    /\ UNCHANGED <<LogToFile, CurrentLogFile, file, files, now, taskExpected, taskF, wroteToClosed>>
    /\ UNCHANGED <<agentVars, scanVars>>

\* Log: if l.LogToFile
LogCheck(t) ==
    /\ taskPc[t] = "Log"
    /\ taskPc' = [taskPc EXCEPT ![t] = IF LogToFile THEN "validate" ELSE "done"]
    /\ UNCHANGED <<LogToFile, CurrentLogFile, file, files, now, taskExpected, taskF, wroteToClosed>>
    /\ UNCHANGED <<agentVars, scanVars>>

\* ValidateAndUpdateLogFilepath: compare CurrentLogFile with the expected path
ValidateRead(t) ==
    /\ taskPc[t] = "validate"
    /\ taskExpected' = [taskExpected EXCEPT ![t] = getLogFilepath(now)]
    /\ taskPc' = [taskPc EXCEPT ![t] = IF CurrentLogFile # getLogFilepath(now) THEN "close" ELSE "write"]
    /\ UNCHANGED <<LogToFile, CurrentLogFile, file, files, now, taskF, wroteToClosed>>
    /\ UNCHANGED <<agentVars, scanVars>>

\* l.file.Close(); closing a closed file returns an error nobody reads
ValidateClose(t) ==
    /\ taskPc[t] = "close"
    /\ files' = [files EXCEPT ![file].open = FALSE]
    /\ taskPc' = [taskPc EXCEPT ![t] = "open"]
    /\ UNCHANGED <<LogToFile, CurrentLogFile, file, now, taskExpected, taskF, wroteToClosed>>
    /\ UNCHANGED <<agentVars, scanVars>>

\* os.OpenFile of the expected path: a new handle, or an error that disables
\* logging and returns to Log
ValidateOpen(t) ==
    /\ taskPc[t] = "open"
    /\ \E ok \in BOOLEAN :
          IF ok
          THEN /\ files' = Append(files, [path |-> taskExpected[t], open |-> TRUE])
               /\ taskF' = [taskF EXCEPT ![t] = Len(files) + 1]
               /\ taskPc' = [taskPc EXCEPT ![t] = "assignPath"]
               /\ UNCHANGED LogToFile
          ELSE /\ LogToFile' = FALSE
               /\ taskPc' = [taskPc EXCEPT ![t] = "write"]
               /\ UNCHANGED <<files, taskF>>
    /\ UNCHANGED <<CurrentLogFile, file, now, taskExpected, wroteToClosed>>
    /\ UNCHANGED <<agentVars, scanVars>>

\* l.CurrentLogFile = expectedCurrentLogFilepath
ValidateAssignPath(t) ==
    /\ taskPc[t] = "assignPath"
    /\ CurrentLogFile' = taskExpected[t]
    /\ taskPc' = [taskPc EXCEPT ![t] = "assignFile"]
    /\ UNCHANGED <<LogToFile, file, files, now, taskExpected, taskF, wroteToClosed>>
    /\ UNCHANGED <<agentVars, scanVars>>

\* l.file = f
ValidateAssignFile(t) ==
    /\ taskPc[t] = "assignFile"
    /\ file' = taskF[t]
    /\ taskPc' = [taskPc EXCEPT ![t] = "write"]
    /\ UNCHANGED <<LogToFile, CurrentLogFile, files, now, taskExpected, taskF, wroteToClosed>>
    /\ UNCHANGED <<agentVars, scanVars>>

\* l.file.WriteString(...)
LogWrite(t) ==
    /\ taskPc[t] = "write"
    /\ wroteToClosed' = (wroteToClosed \/ ~files[file].open)
    /\ taskPc' = [taskPc EXCEPT ![t] = "done"]
    /\ UNCHANGED <<LogToFile, CurrentLogFile, file, files, now, taskExpected, taskF>>
    /\ UNCHANGED <<agentVars, scanVars>>

\* the Logger NewLogger(prefix, folder, true) returns
InitLogger ==
    /\ LogToFile = TRUE
    /\ CurrentLogFile = getLogFilepath(0)
    /\ files = <<[path |-> getLogFilepath(0), open |-> TRUE]>>
    /\ file = 1
    /\ now = 0
    /\ taskPc = [t \in Tasks |-> "idle"]
    /\ taskExpected = [t \in Tasks |-> getLogFilepath(0)]
    /\ taskF = [t \in Tasks |-> 0]
    /\ wroteToClosed = FALSE

vars == <<agentVars, scanVars, loggerVars>>

InitAgent ==
    /\ called = FALSE
    /\ args = Nil
    /\ m = Nil
    /\ err = ""
    /\ server = "none"
    /\ registerArgs = Nil
    /\ ifaceIp = ""
    /\ logs = <<>>
    /\ closeCalls = 0
    /\ panicked = FALSE

\* construction and teardown of the agent
Init == InitAgent /\ InitScanVars /\ InitLogger

Next ==
    \/ NewMDNS
    \/ Close

Spec == Init /\ [][Next]_vars

\* the agents Scan is run on: constructed with no override, and with one
ScanSetups ==
    { [MacOverride |-> <<>>], [MacOverride |-> <<"A", "B", "-", "0", "1">>] }

InitScan ==
    /\ \E su \in ScanSetups :
          LET config == ConfigOf(<<"a">>, <<"v">>)
              ifRes == [err |-> FALSE, ifaces |-> <<IfLo, IfEth0, IfEth1>>]
              macRes == [err |-> FALSE, macs |-> <<Mac_ab01>>]
              r == NewMDNSResult(config, su.MacOverride, macRes, FALSE, ifRes)
          IN  /\ args = <<[config |-> config, MacOverride |-> su.MacOverride, ifaces |-> ifRes.ifaces,
                        ifacesErr |-> ifRes.err, macs |-> macRes.macs, macErr |-> macRes.err,
                        registerFails |-> FALSE]>>
              /\ m = r.m
              /\ err = r.err
              /\ server = r.server
              /\ registerArgs = r.registerArgs
              /\ ifaceIp = r.ifaceIp
              /\ logs = r.logs
    /\ called = TRUE
    /\ closeCalls = 0
    /\ panicked = FALSE
    /\ InitScanVars
    /\ InitLogger

NextScan ==
    \/ ScanStart
    \/ Tick
    \/ BrowseDeliver
    \/ BrowseClose
    \/ CollectorDecode
    \/ CollectorAppend
    \/ CollectorExit
    \/ ScanReturn

SpecScan == InitScan /\ [][NextScan]_vars

\* the runtime fires the context's timer and schedules the caller of Scan
SpecScanFair == SpecScan /\ WF_vars(Tick) /\ WF_vars(ScanReturn)

\* the Logger and its background Log tasks
NextLogger ==
    \/ MonthChange
    \/ \E t \in Tasks :
          \/ PrintAndLog(t)
          \/ LogCheck(t)
          \/ ValidateRead(t)
          \/ ValidateClose(t)
          \/ ValidateOpen(t)
          \/ ValidateAssignPath(t)
          \/ ValidateAssignFile(t)
          \/ LogWrite(t)

SpecLogger == Init /\ [][NextLogger]_vars

\* ------------------------------------------------------------------------
\* Properties
\* ------------------------------------------------------------------------
IsPrefix(a, b) == Len(a) <= Len(b) /\ SubSeq(b, 1, Len(a)) = a

HasPrefix(s, pre) == Len(pre) <= Len(s) /\ SubSeq(s, 1, Len(pre)) = pre

\* C1: Close() completes without fault on whatever NewMDNS returned together
\* with an error, whichever of the two failures it was.
C1_CloseSafeAfterFailedConstruction ==
    (called /\ err \in {"getMacAddr", "register"}) => ~panicked

\* C4: when Register fails, NewMDNS returns the error and no agent object.
C4_NoAgentOnRegisterFailure ==
    err = "register" => m = Nil

\* C5: Register is called with the interface the override resolved to:
\* the matched interface, or none when there is no override or no match.
C5_RegisterUsesResolvedInterface ==
    (called /\ err = "") => registerArgs[1].ifaces = m[1].IfaceOverride

\* C7: on a successfully constructed agent every Close() completes without
\* fault, the first leaves the advertisement shut down, and a later one
\* changes neither the agent nor the advertisement.
C7_CloseTwiceIdempotent ==
    [][(called /\ err = "" /\ closeCalls' = closeCalls + 1)
         => /\ ~panicked'
            /\ server' = "shutdown"
            /\ m' = m
            /\ (closeCalls >= 1 => server' = server)]_vars

C7_Witness ==
    called /\ err = "" /\ closeCalls = 2 /\ server = "shutdown" /\ ~panicked

\* the entries the collector took from the channel before the deadline
ReceivedBeforeDeadline ==
    LET Before(r) == r.beforeDeadline
        rs == SelectSeq(received, Before)
    IN  [i \in 1..Len(rs) |-> rs[i].entry]

\* the records the collector's loop makes of a sequence of entries
RECURSIVE RecordsOf(_, _)
RecordsOf(filter, es) ==
    IF Len(es) = 0 THEN <<>>
    ELSE CollectorRecord(filter, es[1]) \o RecordsOf(filter, Tail(es))

\* C2: the sequence Scan returns holds, once each and in order, the record of
\* every filter-matching entry the collector received before the deadline.
C2_NoRecordLost ==
    scanPc = "returned" => IsPrefix(RecordsOf(domainFilter, ReceivedBeforeDeadline), result[1])

\* C3: once Scan has returned, nothing is appended to the result sequence.
C3_NoAppendAfterReturn ==
    [][scanPc = "returned" => discoveredHost' = discoveredHost]_vars

\* C6: a failure of NewResolver or Browse leaves the process running and
\* Scan returns an empty sequence.
C6_ScanFailureIsReturned ==
    scanFailure \in {"resolver", "browse"}
        => processAlive /\ scanPc = "returned" /\ result = << <<>> >>

\* the entries the collector has finished with
CompletedEntries ==
    LET n == IF collPc \in {"process", "appending"} THEN Len(received) - 1 ELSE Len(received)
    IN  [i \in 1..n |-> received[i].entry]

\* the acceptance rule as stated: no filter, or a raw line "domain=<filter>"
C8_Accepted(e) ==
    \/ domainFilter = <<>>
    \/ \E i \in 1..Len(e.Text) : e.Text[i] = <<"d", "o", "m", "a", "i", "n", "=">> \o domainFilter

HostNamesOf(seq) == [i \in 1..Len(seq) |-> seq[i].HostName]

\* C8: the result sequence holds one record for each received entry that the
\* acceptance rule admits, and none for any other entry.
C8_AcceptanceRule ==
    /\ HostNamesOf(discoveredHost) = HostNamesOf(SelectSeq(CompletedEntries, C8_Accepted))
    /\ collPc = "appending" => C8_Accepted(received[Len(received)].entry)

C8_Witness ==
    /\ domainFilter = <<"a">>
    /\ collPc = "recv"
    /\ HostNamesOf(CompletedEntries) = <<"alpha.local.", "beta.local.">>
    /\ HostNamesOf(discoveredHost) = <<"alpha.local.">>

\* C9: the record Scan decodes from the advertisement of an arozos peer has
\* the Vendor, Model, UUID, Domain, BuildVersion and MinorVersion of the
\* peer's configuration and its hardware addresses in order.
C9_RoundTrip ==
    \A i \in 1..Len(discoveredHost) : \A p \in ArozPeers :
        discoveredHost[i].HostName = p.HostName
            => /\ discoveredHost[i].Vendor = p.config.Vendor
               /\ discoveredHost[i].Model = p.config.Model
               /\ discoveredHost[i].UUID = p.config.UUID
               /\ discoveredHost[i].Domain = p.config.Domain
               /\ discoveredHost[i].BuildVersion = p.config.BuildVersion
               /\ discoveredHost[i].MinorVersion = p.config.MinorVersion
               /\ discoveredHost[i].MacAddr = p.macs

\* no mac_addr line, or only lines that are exactly "mac_addr="
MacMissingOrEmpty(e) ==
    \A i \in 1..Len(e.Text) :
        HasPrefix(e.Text[i], K_mac_addr \o <<"=">>) => e.Text[i] = K_mac_addr \o <<"=">>

\* C10: no record has MacAddr [""], and the record of an entry whose mac_addr
\* is missing or empty has an empty MacAddr, with and without a filter.
C10_EmptyMacDecodesEmpty ==
    \A rec \in {discoveredHost[i] : i \in 1..Len(discoveredHost)} \cup {pending[i] : i \in 1..Len(pending)} :
        /\ rec.MacAddr # << <<>> >>
        /\ \A e \in Entries :
              (e.HostName = rec.HostName /\ MacMissingOrEmpty(e)) => rec.MacAddr = <<>>

C10_Witness ==
    /\ domainFilter = <<"b">>
    /\ \E i \in 1..Len(discoveredHost) :
          /\ discoveredHost[i].HostName = "beta.local."
          /\ discoveredHost[i].MacAddr = <<>>

\* two spellings of one character: the same, ':' for '-', or the other case
SameChar(x, y) ==
    \/ x = y
    \/ {x, y} = {":", "-"}
    \/ {x, y} \in {{"a", "A"}, {"b", "B"}, {"c", "C"}, {"d", "D"}, {"e", "E"}, {"f", "F"}}

\* two spellings of one hardware address
SameHardwareAddress(a, b) == Len(a) = Len(b) /\ \A i \in 1..Len(a) : SameChar(a[i], b[i])

\* iface has a hardware address and override, blanks around it aside, spells it
Names(override, iface) ==
    /\ iface.HardwareAddr # <<>>
    /\ SameHardwareAddress(TrimSpace(override), HardwareAddrString(iface.HardwareAddr))

\* C11: when getMacAddr and Register succeed and the override is empty, names
\* no local interface, or the interface list cannot be read, NewMDNS returns
\* no error and an agent without an interface override.
C11_NoMatchDegrades ==
    (/\ called
     /\ ~args[1].macErr /\ ~args[1].registerFails
     /\ \/ args[1].MacOverride = <<>>
        \/ args[1].ifacesErr
        \/ \A i \in 1..Len(args[1].ifaces) : ~Names(args[1].MacOverride, args[1].ifaces[i]))
        => (err = "" /\ m # Nil /\ m[1].IfaceOverride = Nil)

\* the spellings of one character
Variants(ch) ==
    {c \in {"a", "b", "c", "d", "e", "f", "A", "B", "C", "D", "E", "F", ":", "-"} : SameChar(ch, c)}
        \cup {ch}

\* every spelling of s: each letter in either case, each separator as ':' or '-'
RECURSIVE Spellings(_)
Spellings(s) ==
    IF Len(s) = 0 THEN {<<>>}
    ELSE {<<c>> \o t : c \in Variants(s[1]), t \in Spellings(Tail(s))}

\* C12: NewMDNS called with any other spelling of the same override (':' or
\* '-', either letter case) returns an agent with the same interface override.
C12_SpellingInsensitive ==
    (called /\ err = "")
        => \A o \in Spellings(args[1].MacOverride) :
              NewMDNSResult(args[1].config, o, [err |-> args[1].macErr, macs |-> args[1].macs],
                            args[1].registerFails,
                            [err |-> args[1].ifacesErr, ifaces |-> args[1].ifaces]).m[1].IfaceOverride
                  = m[1].IfaceOverride

C12_Witness ==
    /\ called /\ err = ""
    /\ args[1].MacOverride = <<"A", "B", "-", "0", "1">>
    /\ m[1].IfaceOverride = <<IfEth0>>

\* C14: when getMacAddr fails, NewMDNS returns an error and a nil agent, and
\* zeroconf.Register has not been called.
C14_MacErrorIsFatal ==
    (called /\ args[1].macErr)
        => (err # "" /\ m = Nil /\ registerArgs = Nil /\ server = "none")

C14_Witness ==
    called /\ args[1].macErr /\ err = "getMacAddr" /\ closeCalls = 1

\* the positions of the IPv4 addresses of a matched interface
IPv4Positions(iface) ==
    IF iface.AddrsErr THEN {} ELSE {i \in 1..Len(iface.Addrs) : iface.Addrs[i].V4}

\* C15 as stated: the reported IP address of a matched interface with an IPv4
\* address is its first IPv4 address.
C15_FirstIPv4Reported ==
    (called /\ err = "" /\ m[1].IfaceOverride # Nil /\ IPv4Positions(m[1].IfaceOverride[1]) # {})
        => LET iface == m[1].IfaceOverride[1]
               first == CHOOSE i \in IPv4Positions(iface) : \A j \in IPv4Positions(iface) : i <= j
           IN  ifaceIp = iface.Addrs[first].IP

\* C15 amended: the reported IP address of a matched interface with an IPv4
\* address is its last IPv4 address, wherever its IPv6 addresses stand.
C15_LastIPv4Reported ==
    (called /\ err = "" /\ m[1].IfaceOverride # Nil /\ IPv4Positions(m[1].IfaceOverride[1]) # {})
        => LET iface == m[1].IfaceOverride[1]
               last == CHOOSE i \in IPv4Positions(iface) : \A j \in IPv4Positions(iface) : i >= j
           IN  ifaceIp = iface.Addrs[last].IP

C15_Witness ==
    /\ called /\ err = ""
    /\ m[1].IfaceOverride = <<IfEth0>>
    /\ ifaceIp = "192.168.1.5"

\* C19: an agent's interface override has a hardware address, and the
\* requested override spells it; a blank override selects nothing.
C19_OverrideNamesSelected ==
    (called /\ err = "" /\ m[1].IfaceOverride # Nil)
        => Names(args[1].MacOverride, m[1].IfaceOverride[1])

\* C13: a Scan waiting on its context returns, and with no entry received
\* it returns the empty sequence.
C13_ScanTerminates ==
    /\ (scanPc = "waiting") ~> (scanPc = "returned")
    /\ [](scanPc = "returned" /\ received = <<>> => result = << <<>> >>)

C13_Witness ==
    scanPc = "returned" /\ received = <<>> /\ result = << <<>> >> /\ collPc = "done"

\* the entry on the network with the given host name
EntryNamed(h) == CHOOSE e \in Entries : e.HostName = h

\* the value of key under the stated parsing rule: the remainder after the
\* first '=' of the last line "key=...", "" when there is none
ValueAfterFirstEquals(TEXT, key) ==
    LET idx == {i \in 1..Len(TEXT) : HasPrefix(TEXT[i], key \o <<"=">>)}
        last == CHOOSE i \in idx : \A j \in idx : i >= j
    IN  IF idx = {} THEN <<>>
        ELSE SubSeq(TEXT[last], Len(key) + 2, Len(TEXT[last]))

\* C16: every decoded field of a record is the remainder after the first '='
\* of its key's line; lines without '=' and lines of other keys change nothing.
C16_SplitOnFirstEquals ==
    \A i \in 1..Len(discoveredHost) :
        LET rec == discoveredHost[i]
            TEXT == EntryNamed(rec.HostName).Text
        IN  /\ rec.Domain = ValueAfterFirstEquals(TEXT, K_domain)
            /\ rec.Model = ValueAfterFirstEquals(TEXT, K_model)
            /\ rec.UUID = ValueAfterFirstEquals(TEXT, K_uuid)
            /\ rec.Vendor = ValueAfterFirstEquals(TEXT, K_vendor)
            /\ rec.BuildVersion = ValueAfterFirstEquals(TEXT, K_version_build)
            /\ rec.MinorVersion = ValueAfterFirstEquals(TEXT, K_version_minor)

\* C17: with a non-empty domainFilter every record of the result has Domain
\* equal to domainFilter.
C17_FilteredDomainIsFilter ==
    domainFilter # <<>>
        => \A i \in 1..Len(discoveredHost) : discoveredHost[i].Domain = domainFilter

\* C18: with a non-empty domainFilter every record appended is the record the
\* unfiltered path makes of the same entry.
C18_PathsAgree ==
    domainFilter # <<>>
        => /\ \A i \in 1..Len(discoveredHost) :
                 discoveredHost[i] = UnfilteredHost(EntryNamed(discoveredHost[i].HostName))
           /\ \A i \in 1..Len(pending) :
                 pending[i] = UnfilteredHost(EntryNamed(pending[i].HostName))

C18_Witness ==
    /\ domainFilter = <<"a", "=", "b">>
    /\ \E i \in 1..Len(discoveredHost) : discoveredHost[i].HostName = "eq.local."

\* the handles that are open
OpenFiles == {h \in 1..Len(files) : files[h].open}

\* C20: while LogToFile is set, at most one log file handle is open, no write
\* has gone to a closed handle, and outside ValidateAndUpdateLogFilepath an
\* open l.file is the file CurrentLogFile names.
C20_OneOpenHandle ==
    LogToFile
        => /\ Cardinality(OpenFiles) <= 1
           /\ ~wroteToClosed
           /\ (/\ file \in OpenFiles
               /\ \A t \in Tasks : taskPc[t] \notin {"close", "open", "assignPath", "assignFile"})
                 => files[file].path = CurrentLogFile

====
